---- MODULE Spec2Model ----
(***************************************************************************)
(* A model of the taskboard front end: the per-project board store         *)
(* (ProjectDataService), the Board component that displays one project and *)
(* shares arrays with the store, and the WebSocket client                  *)
(* (WebSocketService) talking to the realtime core.                        *)
(***************************************************************************)
EXTENDS Integers, Sequences, FiniteSets, TLC

\* ------------------------------------------------------------------ bounds
\* how many tasks of each seeded column of initializeDefaultData are kept
SeedTasks == 1
\* how many Board handler calls / direct store calls one behaviour makes
MaxBoardOps == 3
MaxStoreOps == 2
\* Date.now() takes the readings 0..MaxClock
MaxClock == 1
\* sockets alive at once, counting the retries still on a timer
MaxSockets == 2
\* projects a session can subscribe to
MaxProjects == 2
\* capacity of a session's outbound queue, and of the channel to the core
MaxOutbound == 2
MaxInFlight == 1
\* highest sequence number a project reaches
MaxSeq == 2
\* callbacks an event can have, and users a user_count can report
MaxListeners == 1
MaxUsers == 1
\* registrations of listeners in all, where messages are dispatched
MaxReceivers == 2
\* callbacks registered for one event, where they unsubscribe
MaxRegistrations == 3
\* accounts of AuthService.availableUsers that are followed
MaxAccounts == 3

\* ------------------------------------------------------- board store: data
ColumnNames == {"TO DO", "IN PROGRESS", "IN REVIEW", "DONE"}

\* a column name no board has
NoColumn == "ARCHIVE"

\* the projects initializeDefaultData seeds, and one the store has never seen
SeededProjects == {1, 2, 3}
UnknownProject == Cardinality(SeededProjects) + 1
ProjectArgs == SeededProjects \cup {UnknownProject}

\* `P${projectId}` of a created task's id, and the "PA"/"PB"/"PC" of the seeds
Prefix == <<"P1", "P2", "P3", "P4">>
SeedPrefix == <<"PA", "PB", "PC">>

\* the numbers n of the seeded ids "PA-n", "PB-n", "PC-n", column by column
SeedNumbers ==
  <<[c \in ColumnNames |->
       CASE c = "TO DO" -> <<1, 2, 3>> [] c = "IN PROGRESS" -> <<4, 5>>
         [] c = "IN REVIEW" -> <<6, 7>> [] c = "DONE" -> <<8, 9>>],
    [c \in ColumnNames |->
       CASE c = "TO DO" -> <<1, 2, 3>> [] c = "IN PROGRESS" -> <<4, 5, 6>>
         [] c = "IN REVIEW" -> <<7, 8>> [] c = "DONE" -> <<9, 10>>],
    [c \in ColumnNames |->
       CASE c = "TO DO" -> <<1, 2, 3>> [] c = "IN PROGRESS" -> <<4, 5, 6, 7>>
         [] c = "IN REVIEW" -> <<8>> [] c = "DONE" -> <<9, 10, 11>>]>>

Min(a, b) == IF a < b THEN a ELSE b

\* A task is the object {id, title, ...}; obj is the identity of the JS object
\* (two tasks built by two calls are two objects even with equal fields).
SeedTask(p, n) == [id |-> <<SeedPrefix[p], n>>, title |-> "seed", obj |-> 100 * p + n]

initializeDefaultData ==
  [p \in SeededProjects |->
     [c \in ColumnNames |->
        [i \in 1..Min(SeedTasks, Len(SeedNumbers[p][c])) |->
           SeedTask(p, SeedNumbers[p][c][i])]]]

EmptyBoard == [c \in ColumnNames |-> <<>>]

NoId == <<"-", 0>>
NoTask == [id |-> NoId, title |-> "-", obj |-> 0]

VARIABLES
  projectsData,   \* ProjectDataService.projectsData: projectId -> column -> tasks
  projectId,      \* Board's projectId prop (Home.currentProjectId)
  columns,        \* Board's columns state: column -> tasks
  sameObject,     \* columns is the very object the store holds for projectId
  sharedArr,      \* the columns whose array in `columns` is the store's own array
  now,            \* the last reading of Date.now()
  nextObj,        \* identity of the next task object built
  ops,            \* handler / store calls made so far
  lastOp          \* the last call: its arguments and how it ended

boardVars == <<projectsData, projectId, columns, sameObject, sharedArr, now, nextObj, ops, lastOp>>

VARIABLES
  ws,                 \* WebSocketService.ws: the slot of the current socket, 0 for null
  sock,               \* readyState of the socket in each slot
  listeners,          \* WebSocketService.listeners: event -> callbacks
  reconnectAttempts,  \* WebSocketService.reconnectAttempts
  isConnected,        \* WebSocketService.isConnected
  onlineUsers,        \* WebSocketService.onlineUsers
  timers,             \* pending setTimeout callbacks, in the order they fire
  toServer,           \* per socket: messages sent and not yet handled by the core
  toClient,           \* per socket: messages the core sent, not yet received
  session,            \* the core's session of each socket: -1 none, 0 no project, p
  seq,                \* the core's sequence counter of each project
  lastSeq,            \* per project: sequence of the last message handed to listeners
  synced,             \* per socket: "no" board_sync was handed to listeners since it
                      \* opened, or "yes", or "again": of a project handed before it opened
  timerConnects,      \* connect() calls made by reconnect timers since the last open
  stopped,            \* disconnect() was called and connect() was not called since
  lastRun,            \* the last handler or call of the service, and what it did
  authListeners,      \* AuthService.authListeners: a Set, in insertion order
  auth                \* AuthService: currentUser, isAuthenticated, availableUsers, and
                      \* the two localStorage items it writes

clientVars == <<ws, sock, listeners, reconnectAttempts, isConnected, onlineUsers, timers,
                toServer>>
coreVars == <<toClient, session, seq>>
wsVars == <<clientVars, coreVars, lastSeq, synced, timerConnects, stopped, lastRun,
            authListeners, auth>>

vars == <<boardVars, wsVars>>

\* ------------------------------------------------ shared objects and arrays
\* The store and the Board hold references: h is the heap as both see it.
Heap == [data |-> projectsData, view |-> columns, same |-> sameObject, shared |-> sharedArr]

Filter(tasks, taskId) == SelectSeq(tasks, LAMBDA t : t.id # taskId)
ArrayFind(tasks, taskId) == SelectSeq(tasks, LAMBDA t : t.id = taskId)

\* projectData[col].push(task) on the store's array of project p
Push(h, p, col, task) ==
  LET aliased == p = projectId /\ (h.same \/ col \in h.shared)
  IN [h EXCEPT !.data[p][col] = Append(@, task),
               !.view = IF aliased THEN [h.view EXCEPT ![col] = Append(h.view[col], task)]
                                   ELSE h.view]

\* projectData[col] = arr on the store's object of project p (arr a new array)
Assign(h, p, col, arr) ==
  IF p = projectId /\ h.same
    THEN [h EXCEPT !.data[p][col] = arr, !.view[col] = arr]
    ELSE [h EXCEPT !.data[p][col] = arr,
                   !.shared = IF p = projectId THEN h.shared \ {col} ELSE h.shared]

\* projectsData.set(p, board) with board an object the Board does not hold
MapSet(h, p, board) ==
  [h EXCEPT !.data = [q \in DOMAIN h.data \cup {p} |-> IF q = p THEN board ELSE h.data[q]],
            !.same = IF p = projectId THEN FALSE ELSE h.same,
            !.shared = IF p = projectId THEN {} ELSE h.shared]

\* ------------------------------------------------- ProjectDataService
getProjectData(h, p) ==
  IF p \in DOMAIN h.data THEN h ELSE MapSet(h, p, EmptyBoard)

\* updateProjectData that keeps what the project held and adds the new tasks
updateProjectData_Merge(h, p, newData) ==
  MapSet(h, p, IF p \in DOMAIN h.data
                 THEN [c \in DOMAIN newData |->
                         (IF c \in DOMAIN h.data[p] THEN h.data[p][c] ELSE <<>>) \o newData[c]]
                 ELSE newData)

\* updateProjectData(projectId, newData) with newData a new object
updateProjectData(h, p, newData) == MapSet(h, p, newData)

\* the methods below end with updateProjectData(projectId, projectData), which
\* sets the map entry to the object it already holds
\* addTaskToProject that makes the column it does not find
addTaskToProject_CreatesColumn(h, p, columnName, task) ==
  LET h1 == getProjectData(h, p)
  IN IF columnName \in DOMAIN h1.data[p]
       THEN [heap |-> Push(h1, p, columnName, task), applied |-> TRUE, outcome |-> "returned"]
       ELSE [heap |-> [h1 EXCEPT !.data[p] =
                         [c \in DOMAIN h1.data[p] \cup {columnName} |->
                            IF c = columnName THEN <<task>> ELSE h1.data[p][c]]],
             applied |-> TRUE, outcome |-> "returned"]

addTaskToProject(h, p, columnName, task) ==
  LET h1 == getProjectData(h, p)
  IN IF columnName \in DOMAIN h1.data[p]
       THEN [heap |-> Push(h1, p, columnName, task), applied |-> TRUE, outcome |-> "returned"]
       ELSE [heap |-> h1, applied |-> FALSE, outcome |-> "returned"]

\* moveTaskInProject without its `if (task)`: what find returned is pushed
moveTaskInProject_Unguarded(h, p, taskId, fromColumn, toColumn) ==
  LET h1 == getProjectData(h, p)
      found == IF fromColumn \in DOMAIN h1.data[p]
                 THEN ArrayFind(h1.data[p][fromColumn], taskId) ELSE <<>>
      task == IF found = <<>> THEN NoTask ELSE found[1]
      h2 == IF fromColumn \in DOMAIN h1.data[p]
              THEN Assign(h1, p, fromColumn, Filter(h1.data[p][fromColumn], taskId)) ELSE h1
  IN IF toColumn \in DOMAIN h2.data[p]
       THEN [heap |-> Push(h2, p, toColumn, task), applied |-> found # <<>>,
             outcome |-> "returned"]
       ELSE [heap |-> h2, applied |-> found # <<>>, outcome |-> "TypeError"]

\* moveTaskInProject that looks for the task in every column, not in fromColumn
moveTaskInProject_AnyColumn(h, p, taskId, fromColumn, toColumn) ==
  LET h1 == getProjectData(h, p)
      holders == {c \in DOMAIN h1.data[p] : ArrayFind(h1.data[p][c], taskId) # <<>>}
  IN IF holders = {} \/ toColumn \notin DOMAIN h1.data[p]
       THEN [heap |-> h1, applied |-> FALSE, outcome |-> "returned"]
       ELSE LET c == CHOOSE x \in holders : TRUE
                h2 == Assign(h1, p, c, Filter(h1.data[p][c], taskId))
            IN [heap |-> Push(h2, p, toColumn, ArrayFind(h1.data[p][c], taskId)[1]),
                applied |-> TRUE, outcome |-> "returned"]

\* moveTaskInProject that puts the task first in toColumn (unshift for push)
moveTaskInProject_Unshift(h, p, taskId, fromColumn, toColumn) ==
  LET h1 == getProjectData(h, p)
      found == IF fromColumn \in DOMAIN h1.data[p]
                 THEN ArrayFind(h1.data[p][fromColumn], taskId) ELSE <<>>
  IN IF found = <<>>
       THEN [heap |-> h1, applied |-> FALSE, outcome |-> "returned"]
       ELSE LET h2 == Assign(h1, p, fromColumn, Filter(h1.data[p][fromColumn], taskId))
            IN IF toColumn \in DOMAIN h2.data[p]
                 THEN [heap |-> Assign(h2, p, toColumn, <<found[1]>> \o h2.data[p][toColumn]),
                       applied |-> TRUE, outcome |-> "returned"]
                 ELSE [heap |-> h2, applied |-> TRUE, outcome |-> "TypeError"]

moveTaskInProject(h, p, taskId, fromColumn, toColumn) ==
  LET h1 == getProjectData(h, p)
      found == IF fromColumn \in DOMAIN h1.data[p]
                 THEN ArrayFind(h1.data[p][fromColumn], taskId) ELSE <<>>
  IN IF found = <<>>
       THEN [heap |-> h1, applied |-> FALSE, outcome |-> "returned"]
       ELSE LET h2 == Assign(h1, p, fromColumn, Filter(h1.data[p][fromColumn], taskId))
            IN IF toColumn \in DOMAIN h2.data[p]
                 THEN [heap |-> Push(h2, p, toColumn, found[1]), applied |-> TRUE,
                       outcome |-> "returned"]
                 ELSE [heap |-> h2, applied |-> TRUE, outcome |-> "TypeError"]

deleteTaskFromProject(h, p, taskId, columnName) ==
  LET h1 == getProjectData(h, p)
  IN IF columnName \in DOMAIN h1.data[p]
       THEN [heap |-> Assign(h1, p, columnName, Filter(h1.data[p][columnName], taskId)),
             applied |-> TRUE, outcome |-> "returned"]
       ELSE [heap |-> h1, applied |-> FALSE, outcome |-> "returned"]

\* clearProjectData that resets every project the store holds
clearProjectData_Every(h, p) ==
  [MapSet(h, p, EmptyBoard) EXCEPT !.data = [q \in DOMAIN h.data \cup {p} |-> EmptyBoard]]

clearProjectData(h, p) == MapSet(h, p, EmptyBoard)

\* ------------------------------------------------------------ Board
\* setColumns(updater): the updater's result becomes the state; fresh are the
\* columns whose array the updater built anew
SetColumns(h, newColumns, fresh) ==
  [h EXCEPT !.view = newColumns, !.same = FALSE,
            !.shared = (IF h.same THEN DOMAIN h.view ELSE h.shared) \ fresh]

addUpdater(h, columnTitle, taskWithId) ==
  SetColumns(h, [h.view EXCEPT ![columnTitle] = Append(h.view[columnTitle], taskWithId)],
             {columnTitle})

moveUpdater(h, taskId, fromColumn, toColumn) ==
  LET found == ArrayFind(h.view[fromColumn], taskId)
  IN IF found = <<>>
       THEN h
       ELSE LET removed == [h.view EXCEPT ![fromColumn] = Filter(h.view[fromColumn], taskId)]
            IN SetColumns(h, [removed EXCEPT ![toColumn] = Append(h.view[toColumn], found[1])],
                          {fromColumn, toColumn})

deleteUpdater(h, taskId, columnTitle) ==
  SetColumns(h, [h.view EXCEPT ![columnTitle] = Filter(h.view[columnTitle], taskId)],
             {columnTitle})

\* a call as lastOp records it: applied says whether the store took the branch
\* that changes the board, outcome whether the call returned or threw
Op(op, p, taskId, from, to, task, r) ==
  [op |-> op, projectId |-> p, taskId |-> taskId, fromColumn |-> from, toColumn |-> to,
   targetPosition |-> 0, task |-> task, data |-> EmptyBoard, applied |-> r.applied,
   outcome |-> r.outcome]

Returned == [applied |-> TRUE, outcome |-> "returned"]

SetHeap(h) ==
  /\ projectsData' = h.data
  /\ columns' = h.view
  /\ sameObject' = h.same
  /\ sharedArr' = h.shared
  /\ UNCHANGED wsVars

\* React runs a queued updater either at once, inside setColumns (eagerly), or
\* when it renders, after the handler has called the store
handleAddTaskInline(columnTitle, title, eagerly) ==
  /\ ops < MaxBoardOps
  /\ columnTitle \in DOMAIN columns
  /\ \E t \in now..MaxClock :
       LET taskWithId == [id |-> <<Prefix[projectId], t>>, title |-> title, obj |-> nextObj]
           r == IF eagerly
                  THEN addTaskToProject(addUpdater(Heap, columnTitle, taskWithId),
                                        projectId, columnTitle, taskWithId)
                  ELSE addTaskToProject(Heap, projectId, columnTitle, taskWithId)
           h == IF eagerly THEN r.heap ELSE addUpdater(r.heap, columnTitle, taskWithId)
       IN /\ SetHeap(h)
          /\ now' = t
          /\ nextObj' = nextObj + 1
          /\ lastOp' = Op("add", projectId, taskWithId.id, "-", columnTitle, taskWithId, r)
  /\ ops' = ops + 1
  /\ UNCHANGED projectId

handleMoveTask(taskId, fromColumn, toColumn, eagerly) ==
  /\ ops < MaxBoardOps
  /\ fromColumn \in DOMAIN columns
  /\ toColumn \in DOMAIN columns
  /\ LET r == IF eagerly
                THEN moveTaskInProject(moveUpdater(Heap, taskId, fromColumn, toColumn),
                                       projectId, taskId, fromColumn, toColumn)
                ELSE moveTaskInProject(Heap, projectId, taskId, fromColumn, toColumn)
         h == IF eagerly THEN r.heap ELSE moveUpdater(r.heap, taskId, fromColumn, toColumn)
     IN /\ SetHeap(h)
        /\ lastOp' = Op("move", projectId, taskId, fromColumn, toColumn, NoTask, r)
  /\ ops' = ops + 1
  /\ UNCHANGED <<projectId, now, nextObj>>

handleDeleteTask(taskId, columnTitle, eagerly) ==
  /\ ops < MaxBoardOps
  /\ columnTitle \in DOMAIN columns
  /\ LET r == IF eagerly
                THEN deleteTaskFromProject(deleteUpdater(Heap, taskId, columnTitle),
                                           projectId, taskId, columnTitle)
                ELSE deleteTaskFromProject(Heap, projectId, taskId, columnTitle)
         h == IF eagerly THEN r.heap ELSE deleteUpdater(r.heap, taskId, columnTitle)
     IN /\ SetHeap(h)
        /\ lastOp' = Op("delete", projectId, taskId, columnTitle, "-", NoTask, r)
  /\ ops' = ops + 1
  /\ UNCHANGED <<projectId, now, nextObj>>

\* Home.handleProjectSelect, then Board's effect on [projectId]:
\* setColumns(projectDataService.getProjectData(projectId))
handleProjectSelect(p) ==
  /\ ops < MaxBoardOps
  /\ p # projectId
  /\ LET h == getProjectData(Heap, p)
     IN /\ projectsData' = h.data
        /\ columns' = h.data[p]
        /\ sameObject' = TRUE
        /\ sharedArr' = DOMAIN h.data[p]
  /\ projectId' = p
  /\ lastOp' = Op("select", p, NoId, "-", "-", NoTask, Returned)
  /\ ops' = ops + 1
  /\ UNCHANGED <<now, nextObj, wsVars>>

\* the ids of the cards the Board shows, and of those in one of its columns
IdsIn(tasks) == {tasks[i].id : i \in DOMAIN tasks}
BoardIds(board) == UNION {IdsIn(board[c]) : c \in DOMAIN board}

\* ------------------------------------- direct calls of the exported store
SnapTask == [id |-> <<"PS", 1>>, title |-> "sync", obj |-> 900]

\* boards a caller may hand to updateProjectData: an empty one, the seeded one,
\* one with a task the store has not seen
SnapshotArgs(p) ==
  {EmptyBoard, [EmptyBoard EXCEPT !["DONE"] = <<SnapTask>>]}
    \cup (IF p \in SeededProjects THEN {initializeDefaultData[p]} ELSE {})

ColumnArgs == ColumnNames \cup {NoColumn}

TaskIdArgs(p) == (IF p \in DOMAIN projectsData THEN BoardIds(projectsData[p]) ELSE {}) \cup {NoId}

StoreCall(r, op) ==
  /\ ops < MaxStoreOps
  /\ SetHeap(r.heap)
  /\ lastOp' = op
  /\ ops' = ops + 1
  /\ UNCHANGED projectId

StoreGet(p) ==
  /\ StoreCall([heap |-> getProjectData(Heap, p)], Op("get", p, NoId, "-", "-", NoTask, Returned))
  /\ UNCHANGED <<now, nextObj>>

StoreUpdate(p, newData) ==
  /\ StoreCall([heap |-> updateProjectData(Heap, p, newData)],
               [Op("update", p, NoId, "-", "-", NoTask, Returned) EXCEPT !.data = newData])
  /\ UNCHANGED <<now, nextObj>>

StoreAdd(p, columnName) ==
  \E t \in now..MaxClock :
    LET task == [id |-> <<Prefix[p], t>>, title |-> "new", obj |-> nextObj]
        r == addTaskToProject(Heap, p, columnName, task)
    IN /\ StoreCall(r, Op("add", p, task.id, "-", columnName, task, r))
       /\ now' = t
       /\ nextObj' = nextObj + 1

\* the places of toColumn a caller may want the task at: before each task the
\* column holds without the moved one, or after the last
InsertionArgs(p, taskId, toColumn) ==
  IF p \in DOMAIN projectsData /\ toColumn \in DOMAIN projectsData[p]
    THEN 1..(Len(Filter(projectsData[p][toColumn], taskId)) + 1)
    ELSE {1}

\* targetPosition is the place the caller means; moveTaskInProject has no
\* parameter for it and a further argument of a call is ignored
StoreMove(p, taskId, fromColumn, toColumn, targetPosition) ==
  LET r == moveTaskInProject(Heap, p, taskId, fromColumn, toColumn)
  IN /\ StoreCall(r, [Op("move", p, taskId, fromColumn, toColumn, NoTask, r)
                        EXCEPT !.targetPosition = targetPosition])
     /\ UNCHANGED <<now, nextObj>>

StoreDelete(p, taskId, columnName) ==
  LET r == deleteTaskFromProject(Heap, p, taskId, columnName)
  IN /\ StoreCall(r, Op("delete", p, taskId, columnName, "-", NoTask, r))
     /\ UNCHANGED <<now, nextObj>>

StoreClear(p) ==
  /\ StoreCall([heap |-> clearProjectData(Heap, p)], Op("clear", p, NoId, "-", "-", NoTask, Returned))
  /\ UNCHANGED <<now, nextObj>>

\* ---------------------------------------------------------------- WebSocketService
\* frontend/src/services/websocketService.js. A socket lives in a slot; the
\* handlers connect() attaches to it close over the service and over userId, and
\* stay attached when this.ws is overwritten or set to null.

maxReconnectAttempts == 5
reconnectInterval == 3000
NormalClosure == 1000

\* close codes a close event can carry: a clean close, a close frame without a
\* status, a connection that was lost or never established
CloseCodes == {NormalClosure, NormalClosure + 5, NormalClosure + 6}

Slots == 1..MaxSockets
Projects == 1..MaxProjects

\* user_id=a#b makes the URL carry a fragment, which the WebSocket constructor
\* rejects with a SyntaxError
UserIds == {"anonymous", "a#b"}
ConstructorThrows(userId) == userId = "a#b"

IncrementalEvents == {"taskCreated", "taskUpdated", "taskMoved", "taskDeleted"}
SequencedEvents == IncrementalEvents \cup {"boardSync"}
EventNames == SequencedEvents \cup {"connection", "userCount", "error"}
MutationTypes == {"create_task", "update_task", "move_task", "delete_task"}

\* payloads, all of one shape: the fields a payload lacks are "-" or -1
Data(status, p, n, c) == [status |-> status, projectId |-> p, sequence |-> n, count |-> c]
Status(status) == Data(status, -1, -1, -1)
\* a frame of the socket: json says what JSON.parse makes of its text, an
\* "object", the literal "null", or nothing ("text" that is not JSON)
Message(type, payload) == [json |-> "object", type |-> type, payload |-> payload]

\* the payload of a message that has none: data.payload is undefined
NoPayload == Status("undefined")

\* frames the core never sends: text that is not JSON, the literal null, an
\* object without type, a type the service does not know, messages without payload
Malformed ==
  {[Message("-", NoPayload) EXCEPT !.json = "text"],
   [Message("-", NoPayload) EXCEPT !.json = "null"],
   Message("undefined", NoPayload),
   Message("ping", Status("-")),
   Message("user_count", NoPayload),
   Message("task_created", NoPayload)}

\* the service object, the sockets and what they sent, as one value the methods
\* transform; notes are the notifyListeners calls of the run, gaveUp records the
\* else branch of attemptReconnect
Service ==
  [ws |-> ws, sock |-> sock, listeners |-> listeners,
   reconnectAttempts |-> reconnectAttempts, isConnected |-> isConnected,
   onlineUsers |-> onlineUsers, timers |-> timers, toServer |-> toServer,
   notes |-> <<>>, gaveUp |-> FALSE, threw |-> FALSE]

\* setTimeout(fn, delay); attempt is the value of reconnectAttempts the retry
\* was scheduled at, 0 for the timer of connect's catch
Timer(fn, userId, attempt, delay) ==
  [fn |-> fn, userId |-> userId, attempt |-> attempt, delay |-> delay]

Callbacks == 1..MaxListeners

Lowest(S) == CHOOSE x \in S : \A y \in S : x <= y

\* callbacks.indexOf(callback) and callbacks.splice(index, 1); the function
\* subscribe() returns removes the first occurrence of its callback
IndexOf(arr, x) ==
  IF \E i \in 1..Len(arr) : arr[i] = x
  THEN Lowest({i \in 1..Len(arr) : arr[i] = x}) ELSE 0

Splice(arr, i) == [k \in 1..(Len(arr) - 1) |-> IF k < i THEN arr[k] ELSE arr[k + 1]]

\* a listener that, when called, calls the function its subscribe() returned
UnsubscribingCallback == MaxListeners + 2
Unsubscribes(callback) == callback = UnsubscribingCallback

\* a listener is a function of the application; this one throws when called
ThrowingCallback == MaxListeners + 1
Throws(callback) == callback = ThrowingCallback

\* callbacks.forEach(callback => { try { callback(data) } catch (error) {...} }):
\* the callbacks that were called, in order, and whether an exception left the
\* loop; catches says that the call is inside a try whose catch only logs.
\* A note is one notifyListeners call: its event, its data, the callbacks it
\* called and whether it threw.
\* Array.prototype.forEach on the array itself: index i is visited while the
\* array still has it, and a callback that unsubscribes splices the array
\* under the loop; arr is the array the loop leaves
RECURSIVE forEachLive(_, _, _)
forEachLive(arr, i, catches) ==
  IF i > Len(arr) THEN [called |-> <<>>, threw |-> FALSE, arr |-> arr]
  ELSE LET callback == arr[i]
           after == IF Unsubscribes(callback) THEN Splice(arr, IndexOf(arr, callback))
                    ELSE arr
       IN  IF Throws(callback) /\ ~catches
           THEN [called |-> <<callback>>, threw |-> TRUE, arr |-> after]
           ELSE LET rest == forEachLive(after, i + 1, catches)
                IN  [called |-> <<callback>> \o rest.called, threw |-> rest.threw,
                     arr |-> rest.arr]

\* Set.prototype.forEach of AuthService.authListeners
RECURSIVE forEach(_, _)
forEach(callbacks, catches) ==
  IF callbacks = <<>> THEN [called |-> <<>>, threw |-> FALSE]
  ELSE IF Throws(Head(callbacks)) /\ ~catches
  THEN [called |-> <<Head(callbacks)>>, threw |-> TRUE]
  ELSE LET rest == forEach(Tail(callbacks), catches)
       IN  [called |-> <<Head(callbacks)>> \o rest.called, threw |-> rest.threw]

\* notifyListeners without the try around callback(data)
notifyListeners_NoCatch(w, event, data) ==
  LET r == forEachLive(w.listeners[event], 1, FALSE)
  IN  [w EXCEPT !.listeners[event] = r.arr,
                !.notes = Append(@, [event |-> event, data |-> data, callbacks |-> r.called,
                                 threw |-> r.threw]),
                !.threw = @ \/ r.threw]

notifyListeners(w, event, data) ==
  LET r == forEachLive(w.listeners[event], 1, TRUE)
  IN  [w EXCEPT !.listeners[event] = r.arr,
                !.notes = Append(@, [event |-> event, data |-> data, callbacks |-> r.called,
                                 threw |-> r.threw]),
                !.threw = @ \/ r.threw]

\* AuthService.notifyAuthListeners without its try
notifyAuthListeners_NoCatch(a) == forEach(a, FALSE)

\* AuthService: authListeners.forEach(callback => { try { callback({...}) } catch ... })
notifyAuthListeners(a) == forEach(a, TRUE)

\* AuthService.addAuthListener: Set.add keeps one entry per callback
addAuthListener(a, callback) ==
  IF \E i \in DOMAIN a : a[i] = callback THEN a ELSE Append(a, callback)

\* ---------------------------------------------------------------- AuthService
\* an object spread {...obj, ...updates}
Spread(obj, updates) ==
  [f \in DOMAIN obj \cup DOMAIN updates |-> IF f \in DOMAIN updates THEN updates[f] ELSE obj[f]]

\* null, where AuthService.currentUser holds no user
NoUser == [id |-> 0, name |-> "-", isActive |-> FALSE]

\* localStorage.getItem of a key that is not stored
NoItem == <<>>

\* JSON.stringify and JSON.parse of a user object
JSONstringify(user) == <<"{", user.id, user.name, user.isActive, "}">>
JSONparse(text) == [id |-> text[2], name |-> text[3], isActive |-> text[4]]

\* the first MaxAccounts accounts the constructor lists: only the first is active
SeedUsers == [i \in 1..MaxAccounts |-> [id |-> i, name |-> "seed", isActive |-> (i = 1)]]

\* availableUsers.findIndex(u => u.id === userId): 0 stands for -1 and for undefined
FindIndex(users, userId) ==
  IF \E i \in DOMAIN users : users[i].id = userId
  THEN Lowest({i \in DOMAIN users : users[i].id = userId})
  ELSE 0

\* login that marks the user active and leaves the other marks alone
login_KeepsActive(a, user) ==
  [a EXCEPT !.currentUser = user,
            !.isAuthenticated = TRUE,
            !.availableUsers = [i \in DOMAIN @ |->
                                  [@[i] EXCEPT !.isActive = @ \/ (a.availableUsers[i].id = user.id)]],
            !.localStorage = [currentUser |-> JSONstringify(user), isAuthenticated |-> "true"]]

login(a, user) ==
  [a EXCEPT !.currentUser = user,
            !.isAuthenticated = TRUE,
            !.availableUsers = [i \in DOMAIN @ |->
                                  [@[i] EXCEPT !.isActive = (a.availableUsers[i].id = user.id)]],
            !.localStorage = [currentUser |-> JSONstringify(user), isAuthenticated |-> "true"]]

logout(a) ==
  [a EXCEPT !.currentUser = NoUser,
            !.isAuthenticated = FALSE,
            !.availableUsers = [i \in DOMAIN @ |-> [@[i] EXCEPT !.isActive = FALSE]],
            !.localStorage = [currentUser |-> NoItem, isAuthenticated |-> "null"]]

\* switchAccount: the service after the call, and the value the call returns
switchAccount(a, userId) ==
  LET i == FindIndex(a.availableUsers, userId)
  IN  IF i # 0 THEN [auth |-> login(a, a.availableUsers[i]), returned |-> TRUE]
      ELSE [auth |-> a, returned |-> FALSE]

isLoggedIn(a) == a.isAuthenticated /\ a.currentUser # NoUser

getAvailableUsers(a) == SelectSeq(a.availableUsers, LAMBDA u : ~u.isActive)

updateProfile(a, updates) ==
  IF a.currentUser # NoUser
  THEN LET user == Spread(a.currentUser, updates)
           userIndex == FindIndex(a.availableUsers, user.id)
       IN  [auth |-> [a EXCEPT !.currentUser = user,
                               !.availableUsers =
                                  IF userIndex # 0
                                  THEN [@ EXCEPT ![userIndex] = Spread(@, updates)]
                                  ELSE @,
                               !.localStorage.currentUser = JSONstringify(user)],
            returned |-> TRUE]
  ELSE [auth |-> a, returned |-> FALSE]

\* restoreAuthState: JSON.parse of what JSON.stringify wrote does not throw
restoreAuthState(a) ==
  IF a.localStorage.currentUser # NoItem /\ a.localStorage.isAuthenticated = "true"
  THEN login(a, JSONparse(a.localStorage.currentUser))
  ELSE a

\* new AuthService(), in a page whose localStorage holds storage
AuthService(storage) ==
  LET fresh == [currentUser |-> NoUser, isAuthenticated |-> FALSE,
                availableUsers |-> SeedUsers, localStorage |-> storage]
  IN  login(fresh, fresh.availableUsers[1])


attemptReconnect_Uncapped(w, userId) ==
  [w EXCEPT !.reconnectAttempts = @ + 1,
            !.timers = Append(@, Timer("connect", userId, w.reconnectAttempts + 1,
                                       reconnectInterval))]

\* attemptReconnect that doubles the wait with every attempt
attemptReconnect_Backoff(w, userId) ==
  IF w.reconnectAttempts < maxReconnectAttempts
  THEN [w EXCEPT !.reconnectAttempts = @ + 1,
                 !.timers = Append(@, Timer("connect", userId, w.reconnectAttempts + 1,
                                            reconnectInterval * 2 ^ w.reconnectAttempts))]
  ELSE [w EXCEPT !.gaveUp = TRUE]

attemptReconnect(w, userId) ==
  IF w.reconnectAttempts < maxReconnectAttempts
  THEN [w EXCEPT !.reconnectAttempts = @ + 1,
                 !.timers = Append(@, Timer("connect", userId, w.reconnectAttempts + 1,
                                            reconnectInterval))]
  ELSE [w EXCEPT !.gaveUp = TRUE]

\* new WebSocket(...) takes the lowest slot whose socket is gone
NoSocket == [readyState |-> "CLOSED", userId |-> "-"]
FreeSlots(w) == {s \in Slots : w.sock[s] = NoSocket}
IsOpen(w) == w.ws # 0 /\ w.sock[w.ws].readyState = "OPEN"
NewSlot(w) == Lowest(FreeSlots(w))

connect(w, userId) ==
  IF IsOpen(w) THEN w
  ELSE IF ConstructorThrows(userId)
  THEN LET n == notifyListeners(w, "connection", Status("error"))
       IN  [n EXCEPT !.isConnected = FALSE,
                     !.timers = Append(@, Timer("attemptReconnect", userId, 0,
                                                reconnectInterval))]
  ELSE [w EXCEPT !.ws = NewSlot(w),
                 !.sock[NewSlot(w)] = [readyState |-> "CONNECTING", userId |-> userId]]

onopen(w) ==
  notifyListeners([w EXCEPT !.isConnected = TRUE, !.reconnectAttempts = 0],
                  "connection", Status("connected"))

\* onclose that retries after every close, the clean one included
onclose_AnyCode(w, code, userId) ==
  attemptReconnect(notifyListeners([w EXCEPT !.isConnected = FALSE],
                                   "connection", Status("disconnected")), userId)

onclose(w, code, userId) ==
  LET n == notifyListeners([w EXCEPT !.isConnected = FALSE],
                           "connection", Status("disconnected"))
  IN  IF code # NormalClosure THEN attemptReconnect(n, userId) ELSE n

onerror(w) ==
  notifyListeners([w EXCEPT !.isConnected = FALSE], "connection", Status("error"))

handleMessage_Twice(w, data) ==
  CASE data.type = "task_created" ->
         notifyListeners(notifyListeners(w, "taskCreated", data.payload),
                         "taskCreated", data.payload)
    [] data.type = "task_updated" -> notifyListeners(w, "taskUpdated", data.payload)
    [] data.type = "task_moved" -> notifyListeners(w, "taskMoved", data.payload)
    [] data.type = "task_deleted" -> notifyListeners(w, "taskDeleted", data.payload)
    [] data.type = "user_count" ->
         notifyListeners([w EXCEPT !.onlineUsers = data.payload.count],
                         "userCount", data.payload)
    [] data.type = "board_sync" -> notifyListeners(w, "boardSync", data.payload)
    [] OTHER -> w

handleMessage_NoBoardSync(w, data) ==
  CASE data.type = "task_created" -> notifyListeners(w, "taskCreated", data.payload)
    [] data.type = "task_updated" -> notifyListeners(w, "taskUpdated", data.payload)
    [] data.type = "task_moved" -> notifyListeners(w, "taskMoved", data.payload)
    [] data.type = "task_deleted" -> notifyListeners(w, "taskDeleted", data.payload)
    [] data.type = "user_count" ->
         notifyListeners([w EXCEPT !.onlineUsers = data.payload.count],
                         "userCount", data.payload)
    [] OTHER -> w

\* handleMessage that drops its listeners and its connected flag on an unknown type
handleMessage_ResetsOnUnknown(w, data) ==
  CASE data.json = "null" -> [w EXCEPT !.threw = TRUE]
    [] data.type = "task_created" -> notifyListeners(w, "taskCreated", data.payload)
    [] data.type = "task_updated" -> notifyListeners(w, "taskUpdated", data.payload)
    [] data.type = "task_moved" -> notifyListeners(w, "taskMoved", data.payload)
    [] data.type = "task_deleted" -> notifyListeners(w, "taskDeleted", data.payload)
    [] data.type = "user_count" ->
         IF data.payload = NoPayload THEN [w EXCEPT !.threw = TRUE]
         ELSE notifyListeners([w EXCEPT !.onlineUsers = data.payload.count],
                              "userCount", data.payload)
    [] data.type = "board_sync" -> notifyListeners(w, "boardSync", data.payload)
    [] OTHER -> [w EXCEPT !.isConnected = FALSE, !.listeners = [e \in DOMAIN @ |-> <<>>]]

\* data.type of null and data.payload.count of undefined throw a TypeError
handleMessage(w, data) ==
  CASE data.json = "null" -> [w EXCEPT !.threw = TRUE]
    [] data.type = "task_created" -> notifyListeners(w, "taskCreated", data.payload)
    [] data.type = "task_updated" -> notifyListeners(w, "taskUpdated", data.payload)
    [] data.type = "task_moved" -> notifyListeners(w, "taskMoved", data.payload)
    [] data.type = "task_deleted" -> notifyListeners(w, "taskDeleted", data.payload)
    [] data.type = "user_count" ->
         IF data.payload = NoPayload THEN [w EXCEPT !.threw = TRUE]
         ELSE notifyListeners([w EXCEPT !.onlineUsers = data.payload.count],
                              "userCount", data.payload)
    [] data.type = "board_sync" -> notifyListeners(w, "boardSync", data.payload)
    [] OTHER -> w

\* try { handleMessage(JSON.parse(event.data)) } catch: only logs
onmessage(w, raw) ==
  IF raw.json = "text" THEN w
  ELSE [handleMessage(w, raw) EXCEPT !.threw = FALSE]

subscribe(w, event, callback) == [w EXCEPT !.listeners[event] = Append(@, callback)]

unsubscribe(w, event, callback) ==
  IF IndexOf(w.listeners[event], callback) > 0
  THEN [w EXCEPT !.listeners[event] = Splice(@, IndexOf(w.listeners[event], callback))]
  ELSE w

\* sendMessage that sends on whatever socket the service holds
sendMessage_AnyState(w, type, payload) ==
  IF w.ws # 0
  THEN [w EXCEPT !.toServer[w.ws] = Append(@, Message(type, payload))]
  ELSE w

sendMessage(w, type, payload) ==
  IF IsOpen(w)
  THEN [w EXCEPT !.toServer[w.ws] = Append(@, Message(type, payload))]
  ELSE w

createTask(w, p) == sendMessage(w, "create_task", Data("-", p, -1, -1))
updateTask(w, p) == sendMessage(w, "update_task", Data("-", p, -1, -1))
moveTask(w, p) == sendMessage(w, "move_task", Data("-", p, -1, -1))
deleteTask(w, p) == sendMessage(w, "delete_task", Data("-", p, -1, -1))
requestBoardSync(w, p) == sendMessage(w, "request_board_sync", Data("-", p, -1, -1))

\* ws.close() starts the closing handshake of a socket that is not yet closed
Close(state) == IF state \in {"CONNECTING", "OPEN"} THEN "CLOSING" ELSE state

disconnect(w) ==
  LET c == IF w.ws # 0 THEN [w EXCEPT !.sock[w.ws].readyState = Close(@), !.ws = 0] ELSE w
  IN  [c EXCEPT !.isConnected = FALSE, !.listeners = [e \in EventNames |-> <<>>]]

getConnectionStatus(w) == [isConnected |-> w.isConnected, onlineUsers |-> w.onlineUsers]

\* ---------------------------------------------------------------- realtime core
\* The server behind ws://localhost:8000/ws is not part of the sources; the core
\* below follows spec.md sections 3, 4.1, 4.3, 4.4 and 4.5: one session per
\* connection subscribed to at most one project, a sequence counter per project,
\* a bounded outbound queue per session, a snapshot on subscription.

Core == [toClient |-> toClient, session |-> session, seq |-> seq]

\* bounded, non-blocking enqueue: a session whose queue overflows is dropped
enqueue(k, s, msg) ==
  IF k.session[s] = -1 THEN k
  ELSE IF Len(k.toClient[s]) < MaxOutbound
  THEN [k EXCEPT !.toClient[s] = Append(@, msg)]
  ELSE [k EXCEPT !.toClient[s] = <<>>, !.session[s] = -1]

RECURSIVE deliverTo(_, _, _)
deliverTo(k, sessions, event) ==
  IF sessions = {} THEN k
  ELSE deliverTo(enqueue(k, Lowest(sessions), event), sessions \ {Lowest(sessions)}, event)

broadcast(k, p, event) == deliverTo(k, {s \in Slots : k.session[s] = p}, event)

snapshot(k, p) == Message("board_sync", Data("-", p, k.seq[p], -1))
errorTo(k, s, code) == enqueue(k, s, Message("error", Status(code)))

subscribeSession(k, s, p) == enqueue([k EXCEPT !.session[s] = p], s, snapshot(k, p))

EventType(type) ==
  CASE type = "create_task" -> "task_created"
    [] type = "update_task" -> "task_updated"
    [] type = "move_task" -> "task_moved"
    [] type = "delete_task" -> "task_deleted"

\* the store accepts the operation (ok) or fails it; an accepted one takes the
\* project's next sequence number and is broadcast to the project's sessions
applyOperation(k, s, p, type, ok) ==
  IF ok
  THEN broadcast([k EXCEPT !.seq[p] = @ + 1], p,
                 Message(EventType(type), Data("-", p, k.seq[p] + 1, -1)))
  ELSE errorTo(k, s, "NotFoundError")

targetProject_Payload(k, s, m) == m.payload.projectId

\* the sender's subscription selects the project, not the payload
targetProject(k, s, m) == k.session[s]

route(k, s, m, ok) ==
  CASE m.type = "subscribe_project" -> subscribeSession(k, s, m.payload.projectId)
    [] m.type = "request_board_sync" ->
         IF targetProject(k, s, m) \in Projects
         THEN enqueue(k, s, snapshot(k, targetProject(k, s, m)))
         ELSE errorTo(k, s, "NotFoundError")
    [] m.type \in MutationTypes ->
         IF targetProject(k, s, m) \in Projects
         THEN applyOperation(k, s, targetProject(k, s, m), m.type, ok)
         ELSE errorTo(k, s, "NotFoundError")
    [] OTHER -> errorTo(k, s, "ProtocolError")

\* ---------------------------------------------------------------- steps of the service
SetService(w) ==
  /\ ws' = w.ws
  /\ sock' = w.sock
  /\ listeners' = w.listeners
  /\ reconnectAttempts' = w.reconnectAttempts
  /\ isConnected' = w.isConnected
  /\ onlineUsers' = w.onlineUsers
  /\ timers' = w.timers
  /\ toServer' = w.toServer

SetCore(k) ==
  /\ toClient' = k.toClient
  /\ session' = k.session
  /\ seq' = k.seq

NoMessage == Message("-", Status("-"))

\* each notifyListeners call of a run, with the sequence number that was handed
\* to listeners last for its project before it
RECURSIVE Annotate(_, _)
Annotate(notes, last) ==
  IF notes = <<>> THEN <<>>
  ELSE LET n == Head(notes)
           sequenced == n.event \in SequencedEvents /\ n.data.projectId \in DOMAIN last
           prev == IF sequenced THEN last[n.data.projectId] ELSE -1
           next == IF sequenced THEN [last EXCEPT ![n.data.projectId] = n.data.sequence]
                   ELSE last
       IN  <<[event |-> n.event, data |-> n.data, callbacks |-> n.callbacks,
              threw |-> n.threw, prev |-> prev]>>
             \o Annotate(Tail(notes), next)

RECURSIVE SeqAfter(_, _)
SeqAfter(notes, last) ==
  IF notes = <<>> THEN last
  ELSE SeqAfter(Tail(notes),
                IF Head(notes).event \in SequencedEvents
                     /\ Head(notes).data.projectId \in DOMAIN last
                THEN [last EXCEPT ![Head(notes).data.projectId] = Head(notes).data.sequence]
                ELSE last)

\* what a run leaves for the record: the handler, its socket, its notifications,
\* the message it handled, the project the client had asked for and the session's
\* subscription when it ran, and the project a mutation was applied to
Run(handler, s, w, msg, project, wasSynced, target) ==
  [handler |-> handler, socket |-> s, notes |-> Annotate(w.notes, lastSeq),
   gaveUp |-> w.gaveUp, threw |-> w.threw, msg |-> msg, project |-> project,
   subscription |-> IF s \in Slots THEN session[s] ELSE 0,
   wasSynced |-> wasSynced, target |-> target]

Call(handler, s, w) ==
  /\ SetService(w)
  /\ lastRun' = Run(handler, s, w, NoMessage, 0, "no", 0)
  /\ UNCHANGED <<boardVars, authListeners, auth>>

Live == Slots \ FreeSlots(Service)

\* the project the client asked for last on socket s: its last subscribe_project
\* still on the way, or else the subscription the core holds for s
SubscribesIn(q) == {i \in 1..Len(q) : q[i].type = "subscribe_project"}
ClientProject(s) ==
  IF SubscribesIn(toServer[s]) # {}
  THEN toServer[s][CHOOSE i \in SubscribesIn(toServer[s]) :
                     \A j \in SubscribesIn(toServer[s]) : j <= i].payload.projectId
  ELSE session[s]

\* the application calls connect(userId)
Connect(userId) ==
  /\ Len(timers) + Cardinality(Live) < MaxSockets
  /\ Call("connect", 0, connect(Service, userId))
  /\ stopped' = FALSE
  /\ UNCHANGED <<coreVars, lastSeq, synced, timerConnects>>

\* a setTimeout callback of connect() or attemptReconnect() runs
TimerFires ==
  /\ timers # <<>>
  /\ LET t == Head(timers)
         w == [Service EXCEPT !.timers = Tail(@)]
         constructs == t.fn = "connect" /\ ~IsOpen(w)
     IN  /\ (constructs /\ ~ConstructorThrows(t.userId)) => FreeSlots(w) # {}
         /\ Call(t.fn, 0, IF t.fn = "connect" THEN connect(w, t.userId)
                          ELSE attemptReconnect(w, t.userId))
         /\ timerConnects' = IF constructs THEN timerConnects + 1 ELSE timerConnects
  /\ UNCHANGED <<coreVars, lastSeq, synced, stopped>>

\* the handshake of socket s succeeds: the core registers a session, onopen runs
SocketOpens(s) ==
  /\ sock[s].readyState = "CONNECTING"
  /\ Call("onopen", s, onopen([Service EXCEPT !.sock[s].readyState = "OPEN"]))
  /\ session' = [session EXCEPT ![s] = 0]
  /\ synced' = [synced EXCEPT ![s] = "no"]
  /\ timerConnects' = 0
  /\ UNCHANGED <<toClient, seq, lastSeq, stopped>>

\* the handshake of socket s fails: onerror runs, then onclose with code 1006
SocketFails(s) ==
  /\ sock[s].readyState = "CONNECTING"
  /\ Call("onclose", s, onclose(onerror([Service EXCEPT !.sock[s] = NoSocket]),
                                NormalClosure + 6, sock[s].userId))
  /\ UNCHANGED <<coreVars, lastSeq, synced, timerConnects, stopped>>

\* the connection of socket s ends with a close event: the core unregisters the
\* session, what was on the way is lost, onclose runs
ConnectionCloses(s, code) ==
  /\ sock[s].readyState \in {"OPEN", "CLOSING"}
  /\ Call("onclose", s, onclose([Service EXCEPT !.sock[s] = NoSocket, !.toServer[s] = <<>>],
                                code, sock[s].userId))
  /\ session' = [session EXCEPT ![s] = -1]
  /\ toClient' = [toClient EXCEPT ![s] = <<>>]
  /\ UNCHANGED <<seq, lastSeq, synced, timerConnects, stopped>>

Disconnect ==
  /\ Call("disconnect", 0, disconnect(Service))
  /\ stopped' = TRUE
  /\ UNCHANGED <<coreVars, lastSeq, synced, timerConnects>>

Subscribe(event, callback) ==
  /\ Len(listeners[event]) < MaxListeners
  /\ Call("subscribe", 0, subscribe(Service, event, callback))
  /\ UNCHANGED <<coreVars, lastSeq, synced, timerConnects, stopped>>

Unsubscribe(event, callback) ==
  /\ Call("unsubscribe", 0, unsubscribe(Service, event, callback))
  /\ UNCHANGED <<coreVars, lastSeq, synced, timerConnects, stopped>>

\* a call that sends: the channel to the core holds at most MaxInFlight messages
Sends(handler, w) ==
  /\ IsOpen(Service) => Len(toServer[ws]) < MaxInFlight
  /\ Call(handler, ws, w)
  /\ UNCHANGED <<coreVars, lastSeq, synced, timerConnects, stopped>>

SubscribeProject(p) ==
  Sends("sendMessage", sendMessage(Service, "subscribe_project", Data("-", p, -1, -1)))
CreateTask(p) == Sends("createTask", createTask(Service, p))
UpdateTask(p) == Sends("updateTask", updateTask(Service, p))
MoveTask(p) == Sends("moveTask", moveTask(Service, p))
DeleteTask(p) == Sends("deleteTask", deleteTask(Service, p))
RequestBoardSync(p) == Sends("requestBoardSync", requestBoardSync(Service, p))

\* the core handles the next message of session s
CoreHandles(s, ok) ==
  /\ session[s] # -1
  /\ toServer[s] # <<>>
  /\ LET m == Head(toServer[s])
         p == targetProject(Core, s, m)
         applies == m.type \in MutationTypes /\ p \in Projects /\ ok
     IN  /\ m.type \notin MutationTypes => ok
         /\ applies => seq[p] < MaxSeq
         /\ SetCore(route(Core, s, m, ok))
         /\ lastRun' = Run("route", s, [notes |-> <<>>, gaveUp |-> FALSE, threw |-> FALSE], m, session[s],
                           "no", IF applies THEN p ELSE 0)
  /\ toServer' = [toServer EXCEPT ![s] = Tail(@)]
  /\ UNCHANGED <<ws, sock, listeners, reconnectAttempts, isConnected, onlineUsers, timers,
                 lastSeq, synced, timerConnects, stopped, boardVars, authListeners, auth>>

\* a session of another client changes project p
OtherClientMutates(p, type) ==
  /\ seq[p] < MaxSeq
  /\ SetCore(applyOperation(Core, 0, p, type, TRUE))
  /\ lastRun' = Run("broadcast", 0, [notes |-> <<>>, gaveUp |-> FALSE, threw |-> FALSE], NoMessage, p, "no", p)
  /\ UNCHANGED <<clientVars, lastSeq, synced, timerConnects, stopped, boardVars, authListeners, auth>>

\* the core tells session s how many users are online
CoreCountsUsers(s, count) ==
  /\ session[s] # -1
  /\ Len(toClient[s]) < MaxOutbound
  /\ SetCore(enqueue(Core, s, Message("user_count", Data("-", -1, -1, count))))
  /\ lastRun' = Run("user_count", s, [notes |-> <<>>, gaveUp |-> FALSE, threw |-> FALSE], NoMessage, 0, "no", 0)
  /\ UNCHANGED <<clientVars, lastSeq, synced, timerConnects, stopped, boardVars, authListeners, auth>>

\* the first board_sync a connection hands on makes it synced; it is synced
\* "again" when that project had been handed to listeners before
Synced(was, notes) ==
  IF was # "no" \/ \A i \in 1..Len(notes) : notes[i].event # "boardSync" THEN was
  ELSE IF \E i \in 1..Len(notes) :
            notes[i].event = "boardSync" /\ lastSeq[notes[i].data.projectId] >= 0
  THEN "again" ELSE "yes"

\* the next message of the core reaches socket s: onmessage runs
Receives(s, m) ==
  LET w == onmessage(Service, m)
  IN  /\ SetService(w)
      /\ lastRun' = Run("onmessage", s, w, m, ClientProject(s), synced[s], 0)
      /\ lastSeq' = SeqAfter(w.notes, lastSeq)
      /\ synced' = [synced EXCEPT ![s] = Synced(@, w.notes)]
      /\ UNCHANGED <<timerConnects, stopped, boardVars, authListeners, auth>>

MessageArrives(s) ==
  /\ sock[s].readyState = "OPEN"
  /\ toClient[s] # <<>>
  /\ Receives(s, Head(toClient[s]))
  /\ toClient' = [toClient EXCEPT ![s] = Tail(@)]
  /\ UNCHANGED <<session, seq>>

\* a frame the core would not send reaches socket s: onmessage runs
MalformedArrives(s, raw) ==
  /\ sock[s].readyState = "OPEN"
  /\ Receives(s, raw)
  /\ UNCHANGED coreVars

\* the types handleMessage has a case for, the type the protocol has besides
\* them, and a message of each
HandledTypes ==
  {"task_created", "task_updated", "task_moved", "task_deleted", "user_count", "board_sync"}
ErrorType == "error"
OutboundTypes == HandledTypes \cup {ErrorType}
OutboundFrames == {Message(t, Data("-", 1, 1, 1)) : t \in OutboundTypes}

\* a message of a type the core sends reaches socket s: onmessage runs
OutboundArrives(s, m) ==
  /\ sock[s].readyState = "OPEN"
  /\ Receives(s, m)
  /\ UNCHANGED coreVars

\* the callbacks the application registers: those of Callbacks and one that throws
Receivers == Callbacks \cup {ThrowingCallback}

RECURSIVE CountListeners(_, _)
CountListeners(l, events) ==
  IF events = {} THEN 0
  ELSE LET e == CHOOSE x \in events : TRUE
       IN  Len(l[e]) + CountListeners(l, events \ {e})

\* subscribe(event, callback), with at most MaxReceivers registrations in all
SubscribeReceiver(event, callback) ==
  /\ CountListeners(listeners, EventNames) < MaxReceivers
  /\ Call("subscribe", 0, subscribe(Service, event, callback))
  /\ UNCHANGED <<coreVars, lastSeq, synced, timerConnects, stopped>>

\* the listeners of one event: plain ones, one that throws and one that
\* unsubscribes itself when it is called
Listeners == Receivers \cup {UnsubscribingCallback}

\* subscribe(event, callback), with at most MaxRegistrations callbacks an event
SubscribeListener(event, callback) ==
  /\ Len(listeners[event]) < MaxRegistrations
  /\ Call("subscribe", 0, subscribe(Service, event, callback))
  /\ UNCHANGED <<coreVars, lastSeq, synced, timerConnects, stopped>>

\* the application calls a function subscribe(event, callback) returned, and
\* calls the same function once more
UnsubscribeTwice(event, callback) ==
  /\ Call("unsubscribe twice", 0,
          unsubscribe(unsubscribe(Service, event, callback), event, callback))
  /\ UNCHANGED <<coreVars, lastSeq, synced, timerConnects, stopped>>

AddAuthListener(callback) ==
  /\ authListeners' = addAuthListener(authListeners, callback)
  /\ lastRun' = Run("addAuthListener", 0, Service, NoMessage, 0, "no", 0)
  /\ UNCHANGED <<boardVars, clientVars, coreVars, lastSeq, synced, timerConnects, stopped,
                 auth>>

\* what a call of AuthService leaves behind: notifyAuthListeners() where it ran
AuthRun(handler, notifies, target) ==
  LET r == notifyAuthListeners(authListeners)
      note == [event |-> "auth", data |-> Status("auth"), callbacks |-> r.called,
               threw |-> r.threw]
  IN  Run(handler, 0,
          IF notifies THEN [Service EXCEPT !.notes = <<note>>, !.threw = r.threw] ELSE Service,
          NoMessage, 0, "no", target)

\* authService.login(user), with one of the listed accounts
Login(user) ==
  /\ auth' = login(auth, user)
  /\ lastRun' = AuthRun("login", TRUE, user.id)
  /\ UNCHANGED <<boardVars, clientVars, coreVars, lastSeq, synced, timerConnects, stopped,
                 authListeners>>

\* Topbar: authService.logout()
Logout ==
  /\ auth' = logout(auth)
  /\ lastRun' = AuthRun("logout", TRUE, 0)
  /\ UNCHANGED <<boardVars, clientVars, coreVars, lastSeq, synced, timerConnects, stopped,
                 authListeners>>

\* Topbar: authService.switchAccount(userId)
SwitchAccount(userId) ==
  /\ auth' = switchAccount(auth, userId).auth
  /\ lastRun' = AuthRun("switchAccount", switchAccount(auth, userId).returned, userId)
  /\ UNCHANGED <<boardVars, clientVars, coreVars, lastSeq, synced, timerConnects, stopped,
                 authListeners>>

UpdateProfile(updates) ==
  /\ auth' = updateProfile(auth, updates).auth
  /\ lastRun' = AuthRun("updateProfile", updateProfile(auth, updates).returned, 0)
  /\ UNCHANGED <<boardVars, clientVars, coreVars, lastSeq, synced, timerConnects, stopped,
                 authListeners>>

\* the page is loaded again: the module runs new AuthService() and then
\* restoreAuthState() over the localStorage the last page left, and no listener is
\* registered with the new service yet
PageLoad ==
  /\ auth' = restoreAuthState(AuthService(auth.localStorage))
  /\ authListeners' = <<>>
  /\ lastRun' = AuthRun("page load", FALSE, 0)
  /\ UNCHANGED <<boardVars, clientVars, coreVars, lastSeq, synced, timerConnects, stopped>>

\* updateProfile({}) of a logged-in user: nothing of the account changes, and it ends
\* with notifyAuthListeners() as login, logout and switchAccount do
AuthChanges ==
  /\ LET r == notifyAuthListeners(authListeners)
         note == [event |-> "auth", data |-> Status("auth"), callbacks |-> r.called,
                  threw |-> r.threw]
     IN  lastRun' = Run("notifyAuthListeners", 0,
                        [Service EXCEPT !.notes = <<note>>, !.threw = r.threw],
                        NoMessage, 0, "no", 0)
  /\ UNCHANGED <<boardVars, clientVars, coreVars, lastSeq, synced, timerConnects, stopped,
                 authListeners, auth>>

InitWs ==
  /\ ws = 0
  /\ sock = [s \in Slots |-> NoSocket]
  /\ listeners = [e \in EventNames |-> <<>>]
  /\ reconnectAttempts = 0
  /\ isConnected = FALSE
  /\ onlineUsers = 0
  /\ timers = <<>>
  /\ toServer = [s \in Slots |-> <<>>]
  /\ toClient = [s \in Slots |-> <<>>]
  /\ session = [s \in Slots |-> -1]
  /\ seq = [p \in Projects |-> 0]
  /\ lastSeq = [p \in Projects |-> -1]
  /\ synced = [s \in Slots |-> "no"]
  /\ timerConnects = 0
  /\ stopped = FALSE
  /\ authListeners = <<>>
  /\ auth = restoreAuthState(AuthService([currentUser |-> NoItem, isAuthenticated |-> "null"]))
  /\ lastRun = [handler |-> "constructor", socket |-> 0, notes |-> <<>>, gaveUp |-> FALSE,
                threw |-> FALSE,
                msg |-> NoMessage, project |-> 0, subscription |-> 0, wasSynced |-> "no",
                target |-> 0]


\* ---------------------------------------------------------------- specifications
InitBoard ==
  /\ projectsData = initializeDefaultData
  /\ projectId = 1
  /\ columns = initializeDefaultData[1]
  /\ sameObject = TRUE
  /\ sharedArr = ColumnNames
  /\ now = 0
  /\ nextObj = 1
  /\ ops = 0
  /\ lastOp = Op("init", 1, NoId, "-", "-", NoTask, Returned)

Init == InitBoard /\ InitWs

\* Column's form, a Card's move menu or a drop, a Card's delete button, the Sidebar
NextBoard ==
  \/ \E c \in ColumnNames, e \in BOOLEAN : handleAddTaskInline(c, "new", e)
  \/ \E id \in BoardIds(columns), from \in ColumnNames, to \in ColumnNames, e \in BOOLEAN :
       from # to /\ handleMoveTask(id, from, to, e)
  \/ \E c \in ColumnNames, e \in BOOLEAN :
       \E id \in IdsIn(columns[c]) : handleDeleteTask(id, c, e)
  \/ \E p \in ProjectArgs : handleProjectSelect(p)

SpecBoard == Init /\ [][NextBoard]_vars

NextStore ==
  \/ \E p \in ProjectArgs : StoreGet(p)
  \/ \E p \in ProjectArgs : \E d \in SnapshotArgs(p) : StoreUpdate(p, d)
  \/ \E p \in ProjectArgs, c \in ColumnArgs : StoreAdd(p, c)
  \/ \E p \in ProjectArgs, from \in ColumnArgs, to \in ColumnArgs :
       \E id \in TaskIdArgs(p) : \E i \in InsertionArgs(p, id, to) :
         StoreMove(p, id, from, to, i)
  \/ \E p \in ProjectArgs, c \in ColumnArgs : \E id \in TaskIdArgs(p) : StoreDelete(p, id, c)
  \/ \E p \in ProjectArgs : StoreClear(p)

SpecStore == Init /\ [][NextStore]_vars


\* the service alone: connecting, the socket's events, the retry timers, listeners
NextWs ==
  \/ \E u \in UserIds : Connect(u)
  \/ TimerFires
  \/ \E s \in Slots : SocketOpens(s)
  \/ \E s \in Slots : SocketFails(s)
  \/ \E s \in Slots, code \in CloseCodes : ConnectionCloses(s, code)
  \/ Disconnect
  \/ \E cb \in Callbacks : Subscribe("connection", cb)
  \/ \E cb \in Callbacks : Unsubscribe("connection", cb)
  \/ \E s \in Slots, c \in 1..MaxUsers : CoreCountsUsers(s, c)
  \/ \E s \in Slots : MessageArrives(s)
  \/ \E s \in Slots, raw \in Malformed : MalformedArrives(s, raw)

SpecWs == Init /\ [][NextWs]_vars

\* one connection, the listeners of the application and the messages that
\* reach them
NextDispatch ==
  \/ Live = {} /\ Connect("anonymous")
  \/ \E s \in Slots : SocketOpens(s)
  \/ \E s \in Slots : ConnectionCloses(s, NormalClosure)
  \/ \E e \in EventNames, cb \in Receivers : SubscribeReceiver(e, cb)
  \/ \E e \in EventNames, cb \in Receivers : Unsubscribe(e, cb)
  \/ \E s \in Slots, m \in OutboundFrames : OutboundArrives(s, m)
  \/ \E s \in Slots : MalformedArrives(s, Message("ping", Status("-")))
  \/ \E cb \in Receivers : AddAuthListener(cb)
  \/ AuthChanges

SpecDispatch == Init /\ [][NextDispatch]_vars

\* one connection and the listeners of its connection event, registered and
\* unsubscribed in every order, also while they are being notified
NextListeners ==
  \/ Live = {} /\ Connect("anonymous")
  \/ \E s \in Slots : SocketOpens(s)
  \/ \E s \in Slots : ConnectionCloses(s, NormalClosure)
  \/ \E cb \in Listeners : SubscribeListener("connection", cb)
  \/ \E cb \in Listeners : Unsubscribe("connection", cb)
  \/ \E cb \in Listeners : UnsubscribeTwice("connection", cb)

SpecListeners == Init /\ [][NextListeners]_vars


\* AuthService alone: the calls of its public methods, and page loads; what a caller
\* passes to updateProfile is a profile field
NextAuth ==
  \/ \E i \in 1..MaxAccounts : Login(auth.availableUsers[i])
  \/ Logout
  \/ \E userId \in 1..(MaxAccounts + 1) : SwitchAccount(userId)
  \/ \E name \in {"seed", "edited"} : UpdateProfile([name |-> name])
  \/ \E callback \in Receivers : AddAuthListener(callback)
  \/ PageLoad

SpecAuth == Init /\ [][NextAuth]_vars

\* the service and the core: subscriptions, mutations, broadcasts, snapshots.
\* Here the application connects only when no socket is alive and no retry is
\* pending, and listens for taskCreated.
NextSync ==
  \/ Live = {} /\ timers = <<>> /\ Connect("anonymous")
  \/ TimerFires
  \/ \E s \in Slots : SocketOpens(s)
  \/ \E s \in Slots, code \in {NormalClosure, NormalClosure + 6} : ConnectionCloses(s, code)
  \/ \E cb \in Callbacks : Subscribe("taskCreated", cb)
  \/ \E p \in Projects : SubscribeProject(p)
  \/ \E p \in Projects : CreateTask(p)
  \/ \E p \in Projects : UpdateTask(p)
  \/ \E p \in Projects : MoveTask(p)
  \/ \E p \in Projects : DeleteTask(p)
  \/ \E p \in Projects : RequestBoardSync(p)
  \/ \E s \in Slots, ok \in BOOLEAN : CoreHandles(s, ok)
  \/ \E p \in Projects : OtherClientMutates(p, "create_task")
  \/ \E s \in Slots : MessageArrives(s)

SpecSync == Init /\ [][NextSync]_vars

\* ---------------------------------------------------------------- claims
Called == ops' = ops + 1

BoardObjs(board) == UNION {{board[c][i].obj : i \in DOMAIN board[c]} : c \in DOMAIN board}
ColumnsHolding(board, o) == {c \in DOMAIN board : \E i \in DOMAIN board[c] : board[c][i].obj = o}
InOneColumn(board) == \A o \in BoardObjs(board) : Cardinality(ColumnsHolding(board, o)) = 1

\* the tasks the step's delete names: those of its column with its id
DeletedFrom(board) ==
  IF lastOp'.op = "delete" /\ lastOp'.fromColumn \in DOMAIN board
    THEN {t.obj : t \in {board[lastOp'.fromColumn][i] : i \in DOMAIN board[lastOp'.fromColumn]}
                         \cap {x \in {board[lastOp'.fromColumn][i] : i \in DOMAIN board[lastOp'.fromColumn]} :
                                 x.id = lastOp'.taskId}}
    ELSE {}

NoTaskLost ==
  /\ \A p \in DOMAIN projectsData :
       BoardObjs(projectsData[p]) \ BoardObjs(projectsData'[p])
         \subseteq (IF lastOp'.projectId = p THEN DeletedFrom(projectsData[p]) ELSE {})
  /\ projectId' = projectId =>
       BoardObjs(columns) \ BoardObjs(columns') \subseteq DeletedFrom(columns)

IdsUnique == \A p \in DOMAIN projectsData :
  Cardinality(BoardIds(projectsData[p])) = Cardinality(BoardObjs(projectsData[p]))

\* C1: after any sequence of Board creates, moves and deletes every task that
\* was not deleted is in exactly one column, of the stored data and of the
\* Board's columns: no step puts a task in two columns, and no step removes a
\* task other than the ones a delete names.
C1_TaskInExactlyOneColumn ==
  [][/\ \A p \in DOMAIN projectsData' : InOneColumn(projectsData'[p])
     /\ InOneColumn(columns')
     /\ NoTaskLost]_vars

\* C1, as far as the code keeps it: no task is ever in two columns, and none is
\* lost by a step that starts with no two tasks of a project sharing an id.
C1_HoldsWhileIdsUnique ==
  [][/\ \A p \in DOMAIN projectsData' : InOneColumn(projectsData'[p])
     /\ InOneColumn(columns')
     /\ IdsUnique => NoTaskLost]_vars

\* the step is a move whose task is not in fromColumn of the stored board
MoveOfAbsentTask ==
  /\ Called
  /\ lastOp'.op = "move"
  /\ lastOp'.fromColumn \in DOMAIN projectsData[lastOp'.projectId]
  /\ lastOp'.taskId \notin IdsIn(projectsData[lastOp'.projectId][lastOp'.fromColumn])

SecondOfTwoMoves ==
  /\ Called
  /\ lastOp.op = "move" /\ lastOp.applied /\ lastOp.outcome = "returned"
  /\ lastOp'.op = "move"
  /\ lastOp'.projectId = lastOp.projectId
  /\ lastOp'.taskId = lastOp.taskId
  /\ lastOp'.fromColumn = lastOp.fromColumn
  /\ lastOp.toColumn # lastOp.fromColumn
  /\ lastOp'.toColumn \notin {lastOp.toColumn, lastOp.fromColumn}

FirstMoveStands ==
  /\ projectsData' = projectsData
  /\ lastOp.taskId \in IdsIn(projectsData'[lastOp.projectId][lastOp.toColumn])
  /\ lastOp'.toColumn \in DOMAIN projectsData'[lastOp.projectId] =>
       lastOp.taskId \notin IdsIn(projectsData'[lastOp.projectId][lastOp'.toColumn])

C5_CreateAppendsAtEnd ==
  [][(Called /\ lastOp'.op = "add") =>
       /\ projectsData'[projectId][lastOp'.toColumn]
            = Append(projectsData[projectId][lastOp'.toColumn], lastOp'.task)
       /\ columns'[lastOp'.toColumn] = Append(columns[lastOp'.toColumn], lastOp'.task)]_vars

Notes == {lastRun.notes[i] : i \in 1..Len(lastRun.notes)}
Handed == {n \in Notes : n.callbacks # <<>>}

\* C2: every incremental event (taskCreated, taskUpdated, taskMoved, taskDeleted)
\* the service hands to listeners carries exactly the sequence number after the
\* one it handed last for that project: no gap, no duplicate, no step back
C2_EventsInSequenceOrder ==
  \A n \in Notes : n.event \in IncrementalEvents => n.data.sequence = n.prev + 1

\* a listener is handed the second of two consecutive events
C2_Witness ==
  /\ lastRun.handler = "onmessage"
  /\ \E n \in Handed : /\ n.event \in IncrementalEvents
                       /\ n.prev >= 1
                       /\ n.data.sequence = n.prev + 1

\* C7: the timers of attemptReconnect call connect() at most maxReconnectAttempts
\* times without a socket opening in between, and the run that gives up tells
\* the 'connection' listeners of it: something other than the connected,
\* disconnected and error every connection reports
C7_RetriesCappedAndFailureSurfaced ==
  /\ timerConnects <= maxReconnectAttempts
  /\ lastRun.gaveUp =>
       \E n \in Notes : /\ n.event = "connection"
                        /\ n.data.status \notin {"connected", "disconnected", "error"}

C9_OnlyEventsOfSubscribedProject ==
  lastRun.handler = "onmessage" =>
    \A n \in Handed : n.event \in SequencedEvents =>
      n.data.projectId \in {lastRun.project, lastRun.subscription}

\* C10: when the core handles a task mutation of a session, no project other
\* than the session's subscription gets a new sequence number
C10_MutationTargetsSubscription ==
  [][\A s \in Slots :
       (/\ toServer[s] # <<>>
        /\ toServer'[s] = Tail(toServer[s])
        /\ Head(toServer[s]).type \in MutationTypes)
       => \A p \in Projects : p # session[s] => seq'[p] = seq[p]]_vars

\* a mutation whose payload names another project was applied to the subscription
C10_Witness ==
  /\ lastRun.handler = "route"
  /\ lastRun.msg.type \in MutationTypes
  /\ lastRun.target \in Projects
  /\ lastRun.target = lastRun.subscription
  /\ lastRun.msg.payload.projectId # lastRun.target

\* C11: a frame that is not JSON, that lacks a field or whose type is unknown
\* leaves the socket open and every field of the service (the socket, isConnected,
\* reconnectAttempts, the listeners, the timers, onlineUsers) as it was, so that
\* the messages after it are handled as if it had not come
C11_MalformedMessageChangesNothing ==
  [][(lastRun'.handler = "onmessage" /\ lastRun'.msg \in Malformed) =>
       /\ UNCHANGED clientVars
       /\ sock'[lastRun'.socket].readyState = "OPEN"]_vars

\* a user_count without payload was handled on a socket that is connected and
\* has a listener, and the socket is still open
C11_Witness ==
  /\ lastRun.handler = "onmessage"
  /\ lastRun.msg = Message("user_count", NoPayload)
  /\ isConnected
  /\ listeners["connection"] # <<>>
  /\ sock[lastRun.socket].readyState = "OPEN"

\* ---------------------------------------------------------------- claims: store
\* C12: a call of the store for one project, whether it changes that project,
\* finds nothing to do or throws, leaves the board of every other project as it
\* was, and the Board's columns too when the Board shows another project
C12_OtherProjectsUnchanged ==
  [][Called =>
       /\ \A q \in DOMAIN projectsData :
            q # lastOp'.projectId =>
              q \in DOMAIN projectsData' /\ projectsData'[q] = projectsData[q]
       /\ lastOp'.projectId # projectId => columns' = columns]_vars

\* a move that threw in one project, while another project holds what an
\* earlier call made of it and a third is as it was seeded
C12_Witness ==
  /\ ops = MaxStoreOps
  /\ lastOp.op = "move" /\ lastOp.outcome = "TypeError"
  /\ \E q \in SeededProjects :
       /\ q # lastOp.projectId
       /\ projectsData[q] # initializeDefaultData[q]
  /\ \E q \in SeededProjects :
       /\ q # lastOp.projectId
       /\ projectsData[q] = initializeDefaultData[q]

\* the task objects a store holds, over all projects and columns
TasksOf(board) == UNION {{board[c][i] : i \in DOMAIN board[c]} : c \in DOMAIN board}
AllTasks(data) == UNION {TasksOf(data[p]) : p \in DOMAIN data}

\* C13: no two task objects of the store, of whatever projects, share an id,
\* and a move leaves every task object with the fields it had
C13_IdsUniqueAndStable ==
  [][/\ \A t, u \in AllTasks(projectsData') : t.id = u.id => t.obj = u.obj
     /\ (Called /\ lastOp'.op = "move") =>
          AllTasks(projectsData') \subseteq AllTasks(projectsData)]_vars

\* C13, the part the code keeps: a move leaves every task object with the
\* fields it had
C13_MoveKeepsFields ==
  [][(Called /\ lastOp'.op = "move") =>
       AllTasks(projectsData') \subseteq AllTasks(projectsData)]_vars

\* ---------------------------------------------------------------- claims: reconnection
\* two retries waiting at once, scheduled at successive values of reconnectAttempts
Successive(i, j) ==
  /\ timers[i].fn = "connect" /\ timers[j].fn = "connect"
  /\ timers[j].attempt = timers[i].attempt + 1

\* C14 (as claimed): the wait grows from one attempt to the next: the retry
\* scheduled as attempt k+1 waits longer than the one scheduled as attempt k
C14_DelayGrows ==
  \A i, j \in DOMAIN timers : Successive(i, j) => timers[j].delay > timers[i].delay

\* C14 (amended): every retry, whatever its attempt number, and the timer of
\* connect's catch wait the same reconnectInterval of 3000 ms: there is no
\* multiplier and no cap
C14_DelayIsConstant ==
  \A i \in DOMAIN timers : timers[i].delay = reconnectInterval

\* the second and the third attempt wait at once
C14_Witness ==
  \E i, j \in DOMAIN timers : Successive(i, j) /\ timers[i].attempt >= 2

\* ------------------------------------------------------------------ C15
InsertAt(arr, i, x) == SubSeq(arr, 1, i - 1) \o <<x>> \o SubSeq(arr, i, Len(arr))

\* a move the store carried out to its end
Moved == Called /\ lastOp'.op = "move" /\ lastOp'.applied /\ lastOp'.outcome = "returned"

\* the task a move takes: the first of fromColumn with the id
MovedTask == ArrayFind(projectsData[lastOp'.projectId][lastOp'.fromColumn], lastOp'.taskId)[1]

MoveNamesMissingColumn ==
  /\ Called /\ lastOp'.op = "move"
  /\ lastOp'.projectId \in DOMAIN projectsData
  /\ \/ lastOp'.fromColumn \notin DOMAIN projectsData[lastOp'.projectId]
     \/ lastOp'.toColumn \notin DOMAIN projectsData[lastOp'.projectId]

\* C16: a move that names a column the project does not have ends as an error
\* and leaves the board exactly as it was, the task still in its column.
C16_MissingColumnMoveFailsAtomically ==
  [][MoveNamesMissingColumn =>
       /\ lastOp'.outcome # "returned"
       /\ projectsData' = projectsData]_vars

\* C16, the atomic half alone: no task of the board is lost by such a move.
C16_MissingColumnMoveLosesNoTask ==
  [][MoveNamesMissingColumn => AllTasks(projectsData) \subseteq AllTasks(projectsData')]_vars

\* C16, the half that holds: a missing fromColumn leaves the board unchanged
\* (and the call returns normally).
C16_MissingFromColumnChangesNothing ==
  [][(MoveNamesMissingColumn /\ lastOp'.fromColumn \notin DOMAIN projectsData[lastOp'.projectId])
       => projectsData' = projectsData /\ lastOp'.outcome = "returned"]_vars

\* ------------------------------------------------------------------ C17
\* C17: every project the store holds, the lazily created ones included, has
\* exactly the columns TO DO, IN PROGRESS, IN REVIEW and DONE, and so has the
\* board the Board component shows, after any sequence of calls.
C17_ColumnsAreFixed ==
  /\ \A p \in DOMAIN projectsData : DOMAIN projectsData[p] = ColumnNames
  /\ DOMAIN columns = ColumnNames

\* a task was to be added to a column no board has, in a project the store
\* had to create for the call, after an earlier call
C17_Witness ==
  /\ ops = MaxStoreOps
  /\ lastOp.op = "add" /\ lastOp.toColumn = NoColumn /\ ~lastOp.applied
  /\ lastOp.projectId = UnknownProject /\ UnknownProject \in DOMAIN projectsData

\* ------------------------------------------------------------------ C18
\* after is before without one task of the id, or before itself if it has none
RemovedOne(before, after, taskId) ==
  IF ArrayFind(before, taskId) = <<>>
    THEN after = before
    ELSE \E i \in DOMAIN before : before[i].id = taskId /\ after = Splice(before, i)

Deleted == Called /\ lastOp'.op = "delete" /\ lastOp'.projectId \in DOMAIN projectsData

\* C18: a delete takes the task of that id out of the named column of the
\* store's board and changes nothing else there: the other tasks of the column
\* stay in order, the other columns are unchanged, and a delete of a task the
\* column does not hold changes nothing.
C18_DeleteRemovesOnlyThatTask ==
  [][Deleted =>
       LET p == lastOp'.projectId
           col == lastOp'.fromColumn
       IN \A c \in DOMAIN projectsData[p] :
            IF c = col
              THEN RemovedOne(projectsData[p][c], projectsData'[p][c], lastOp'.taskId)
              ELSE projectsData'[p][c] = projectsData[p][c]]_vars

\* C18 where ids are unique: a delete in a column that holds the id once
C18_DeleteOfUniqueId ==
  [][(Deleted /\ lastOp'.fromColumn \in DOMAIN projectsData[lastOp'.projectId]
        /\ Len(ArrayFind(projectsData[lastOp'.projectId][lastOp'.fromColumn],
                         lastOp'.taskId)) <= 1) =>
       LET p == lastOp'.projectId
       IN \A c \in DOMAIN projectsData[p] :
            IF c = lastOp'.fromColumn
              THEN RemovedOne(projectsData[p][c], projectsData'[p][c], lastOp'.taskId)
              ELSE projectsData'[p][c] = projectsData[p][c]]_vars

\* ------------------------------------------------------------------ C19
\* the event whose listeners a message type belongs to
EventOf(type) ==
  CASE type = "board_sync" -> "boardSync"
    [] type = "task_created" -> "taskCreated"
    [] type = "task_moved" -> "taskMoved"
    [] type = "task_updated" -> "taskUpdated"
    [] type = "task_deleted" -> "taskDeleted"
    [] type = "user_count" -> "userCount"
    [] type = "error" -> "error"

\* onmessage has handed the message on: one notifyListeners call for the event
\* of its type, with its payload, that called the listeners of that event
Dispatched ==
  /\ Len(lastRun'.notes) = 1
  /\ lastRun'.notes[1].event = EventOf(lastRun'.msg.type)
  /\ lastRun'.notes[1].data = lastRun'.msg.payload
  /\ lastRun'.notes[1].callbacks = listeners[EventOf(lastRun'.msg.type)]

\* C19: a message of each type the core sends (board_sync, task_created,
\* task_moved, task_updated, task_deleted, user_count, error) is handed to the
\* listeners of its event, and a message of any other type is handed to none.
C19_EveryOutboundTypeDispatched ==
  [][lastRun'.handler = "onmessage" =>
       /\ lastRun'.msg \in OutboundFrames => Dispatched
       /\ lastRun'.msg \in Malformed => lastRun'.notes = <<>>]_vars

\* C19 without error: the six types handleMessage has a case for are handed
\* on, and the frames of no known type are handed to no listener.
C19_TypesWithACaseDispatched ==
  [][lastRun'.handler = "onmessage" =>
       /\ (lastRun'.msg \in OutboundFrames /\ lastRun'.msg.type # ErrorType) => Dispatched
       /\ lastRun'.msg \in Malformed => lastRun'.notes = <<>>]_vars

\* C19 for error alone: an error message reaches no listener, whether or not
\* one is registered for the event error.
C19_ErrorIsDropped ==
  [][(lastRun'.handler = "onmessage" /\ lastRun'.msg.type = ErrorType) =>
       lastRun'.notes = <<>>]_vars

\* ------------------------------------------------------------------ C20
\* the listeners registered for the event of a note
Registered(n) == IF n.event = "auth" THEN authListeners ELSE listeners[n.event]

\* C20: every notifyListeners and notifyAuthListeners call calls each listener
\* registered for its event, in order, those after a listener that throws
\* included, and no exception leaves the call.
C20_ThrowingListenerBlocksNoOther ==
  [][\A i \in DOMAIN lastRun'.notes :
       /\ lastRun'.notes[i].callbacks = Registered(lastRun'.notes[i])
       /\ ~lastRun'.notes[i].threw
       /\ ~lastRun'.threw]_vars

\* C20 for AuthService.notifyAuthListeners alone
C20_AuthListeners ==
  [][lastRun'.handler = "notifyAuthListeners" =>
       \A i \in DOMAIN lastRun'.notes :
         lastRun'.notes[i].callbacks = authListeners /\ ~lastRun'.notes[i].threw]_vars

\* a message was handed to the listener that throws and then to another one
C20_Witness ==
  /\ lastRun.handler = "onmessage"
  /\ \E n \in Notes : /\ Len(n.callbacks) = MaxReceivers
                       /\ Throws(n.callbacks[1])
                       /\ ~Throws(n.callbacks[Len(n.callbacks)])

\* the auth listener that throws was called, and the one added after it
C20_AuthWitness ==
  /\ lastRun.handler = "notifyAuthListeners"
  /\ \E n \in Notes : Len(n.callbacks) >= 2 /\ Throws(n.callbacks[1])

\* ------------------------------------------------------------------ C21
\* a step in which new WebSocket(...) made a socket
Constructs == \E s \in Slots : sock'[s].readyState = "CONNECTING" /\ sock[s] = NoSocket

\* C21: from a disconnect() until the application calls connect() again, the
\* service makes no socket, whatever close event the closed socket delivers
\* and whatever timers were pending.
C21_NoAttemptAfterDisconnect ==
  [][(stopped /\ stopped') => ~Constructs]_vars

\* C21 for the close event alone: after a disconnect() the close event of a
\* socket schedules no retry.
C21_CloseAfterDisconnectSchedulesNothing ==
  [][(stopped /\ stopped' /\ lastRun'.handler = "onclose") => timers' = timers]_vars

\* ------------------------------------------------------------------ C22
\* C22: a close event with code 1000 schedules no retry and counts none; a
\* close event with another code, when fewer than maxReconnectAttempts retries
\* were counted since the last open, schedules exactly one connect(userId) of
\* the socket's user and counts it; an open sets reconnectAttempts to 0.
C22_CloseCodeDecidesRetry ==
  [][/\ \A s \in Slots :
          ConnectionCloses(s, NormalClosure) =>
            timers' = timers /\ reconnectAttempts' = reconnectAttempts
     /\ \A s \in Slots, code \in CloseCodes \ {NormalClosure} :
          (ConnectionCloses(s, code) /\ reconnectAttempts < maxReconnectAttempts) =>
            /\ timers' = Append(timers, Timer("connect", sock[s].userId,
                                              reconnectAttempts + 1, reconnectInterval))
            /\ reconnectAttempts' = reconnectAttempts + 1
     /\ \A s \in Slots : SocketOpens(s) => reconnectAttempts' = 0]_vars

\* the third retry in a row was scheduled by a close event
C22_Witness ==
  /\ lastRun.handler = "onclose"
  /\ reconnectAttempts >= 3
  /\ timers # <<>> /\ timers[Len(timers)].attempt = reconnectAttempts

\* an open has set the count of retries back to 0 after a retry
C22_OpenWitness ==
  /\ lastRun.handler = "onopen" /\ reconnectAttempts = 0 /\ timerConnects = 0
  /\ \E s \in Slots : sock[s].readyState = "OPEN" /\ s > 1

\* ------------------------------------------------------------------ C23
\* the sockets that are connecting or open; each carries the handlers connect()
\* attached to it
LiveSockets == {s \in Slots : sock[s].readyState \in {"CONNECTING", "OPEN"}}

\* C23: at any time at most one socket of the service is connecting or open.
C23_AtMostOneLiveSocket == Cardinality(LiveSockets) <= 1

\* C23 for connect() alone: a connect() call makes no socket while a socket is
\* connecting or open.
C23_ConnectMakesNoSecondSocket ==
  [][(Constructs /\ lastRun'.handler = "connect") => LiveSockets = {}]_vars

\* C23, the part the guard of connect() keeps: no socket is made while the
\* current socket is open.
C23_NoSocketWhileCurrentIsOpen ==
  [][Constructs => ~IsOpen(Service)]_vars

\* ------------------------------------------------------------------ C24
\* no socket has a callback to come for a handshake or a close under way
Quiescent == \A s \in Slots : sock[s].readyState \in {"OPEN", "CLOSED"}

\* C24: once the callbacks of every socket have run, getConnectionStatus()
\* reports isConnected exactly when the current socket is open.
C24_IsConnectedIffCurrentOpen ==
  Quiescent => (getConnectionStatus(Service).isConnected <=> IsOpen(Service))

\* C24 for the late callback alone: a close or error event of a socket that is
\* not the current one leaves isConnected true while the current one is open.
C24_LateCloseKeepsConnected ==
  [][(lastRun'.handler = "onclose" /\ lastRun'.socket # ws /\ IsOpen(Service) /\ isConnected)
       => isConnected']_vars

\* ------------------------------------------------------------------ C25
\* how often callback x is in arr
RECURSIVE Count(_, _)
Count(arr, x) ==
  IF arr = <<>> THEN 0 ELSE (IF Head(arr) = x THEN 1 ELSE 0) + Count(Tail(arr), x)

\* C25: an unsubscribe function removes the one registration it was returned
\* for, and a second call of it removes nothing more: after both calls the
\* event has one registration of the callback less and every other one as
\* before; and a notification calls every listener registered for its event
\* exactly once, except one that was unsubscribed during the notification.
C25_UnsubscribeRemovesOneAndNotifyCallsAll ==
  [][/\ \A cb \in Listeners :
          (lastRun'.handler = "unsubscribe twice"
             /\ listeners' = unsubscribe(unsubscribe(Service, "connection", cb),
                                         "connection", cb).listeners
             /\ Count(listeners["connection"], cb) >= 1) =>
            Count(listeners'["connection"], cb) = Count(listeners["connection"], cb) - 1
     /\ \A i \in DOMAIN lastRun'.notes :
          \A cb \in Listeners :
            ~Unsubscribes(cb) =>
              Count(lastRun'.notes[i].callbacks, cb) = Count(listeners[lastRun'.notes[i].event], cb)]_vars

\* C25, the second call alone: calling an unsubscribe function again leaves
\* a second registration of the same callback in place.
C25_SecondCallRemovesNothing ==
  [][\A cb \in Listeners :
       (lastRun'.handler = "unsubscribe twice"
          /\ listeners' = unsubscribe(unsubscribe(Service, "connection", cb),
                                      "connection", cb).listeners
          /\ Count(listeners["connection"], cb) >= 1) =>
         Count(listeners'["connection"], cb) = Count(listeners["connection"], cb) - 1]_vars

\* C25, the notification alone: every listener that does not unsubscribe is
\* called as often as it is registered.
C25_NotificationSkipsNoListener ==
  [][\A i \in DOMAIN lastRun'.notes :
       \A cb \in Listeners :
         ~Unsubscribes(cb) =>
           Count(lastRun'.notes[i].callbacks, cb) = Count(listeners[lastRun'.notes[i].event], cb)]_vars

\* C25, the part that holds: one call of an unsubscribe function removes the
\* first registration of its callback and leaves every other one, in order.
C25_OneCallRemovesOne ==
  [][\A cb \in Listeners :
       (lastRun'.handler = "unsubscribe"
          /\ listeners' = unsubscribe(Service, "connection", cb).listeners
          /\ Count(listeners["connection"], cb) >= 1) =>
         /\ Count(listeners'["connection"], cb) = Count(listeners["connection"], cb) - 1
         /\ \A other \in Listeners \ {cb} :
              SelectSeq(listeners'["connection"], LAMBDA x : x = other)
                = SelectSeq(listeners["connection"], LAMBDA x : x = other)]_vars

\* ------------------------------------------------------------------ C26
SendHandlers ==
  {"sendMessage", "createTask", "updateTask", "moveTask", "deleteTask", "requestBoardSync"}

\* C26: a send while the service has no socket or its socket is not open
\* changes nothing in the service and puts nothing on the way to the core,
\* and throws nothing; and a message gets on the way to the core only in a
\* send on the open current socket, so that nothing is sent later.
C26_SendWhileNotOpenDoesNothing ==
  [][/\ (lastRun'.handler \in SendHandlers /\ ~IsOpen(Service)) =>
          UNCHANGED <<clientVars, coreVars>> /\ ~lastRun'.threw
     /\ \A s \in Slots :
          Len(toServer'[s]) > Len(toServer[s]) =>
            lastRun'.handler \in SendHandlers /\ IsOpen(Service) /\ s = ws]_vars

\* a send was made while the service waited to reconnect, its socket closed
C26_Witness ==
  /\ lastRun.handler \in SendHandlers \ {"sendMessage"}
  /\ ~IsOpen(Service)
  /\ reconnectAttempts > 0
  /\ \A s \in Slots : toServer[s] = <<>>

\* ------------------------------------------------------------------ C27
\* C27: the columns the Board shows equal the board the store holds for the
\* current project, after every handler and in whatever order React runs the
\* updaters; and a project shown after a switch is shown as it is stored.
C27_BoardShowsStoredData == columns = projectsData[projectId]

\* C27, the switch alone: after handleProjectSelect the Board shows exactly
\* what the store holds for the project, whatever was done before.
C27_SwitchShowsStoredData ==
  [][(Called /\ lastOp'.op = "select") => columns' = projectsData'[projectId']]_vars

\* ------------------------------------------------------------------ C28
\* the accounts marked active and the current user agree in the service a
AccountsAgree(a) ==
  /\ Cardinality({i \in DOMAIN a.availableUsers : a.availableUsers[i].isActive}) <= 1
  /\ isLoggedIn(a) =>
       /\ \E i \in DOMAIN a.availableUsers : a.availableUsers[i].isActive
       /\ \A i \in DOMAIN a.availableUsers :
            a.availableUsers[i].isActive => a.availableUsers[i].id = a.currentUser.id
       /\ \A i \in DOMAIN getAvailableUsers(a) :
            getAvailableUsers(a)[i].id # a.currentUser.id

\* the user id is not one of availableUsers
UnknownAccount(a, userId) == \A i \in DOMAIN a.availableUsers : a.availableUsers[i].id # userId

C28_UnknownWitness ==
  /\ lastRun.handler = "switchAccount"
  /\ UnknownAccount(auth, lastRun.target)
  /\ isLoggedIn(auth) /\ auth.currentUser.id = 2

\* logout was the last call
C28_LogoutWitness == lastRun.handler = "logout" /\ auth.availableUsers[2].name = "edited"

\* ------------------------------------------------------------------ C29
\* the user the last login or switchAccount left in localStorage
PersistedUser(a) == JSONparse(a.localStorage.currentUser)

\* C29: authentication state survives a page load: the user persisted by the
\* last login or switchAccount before the load is the current user once the
\* service is constructed and restoreAuthState has run, and when the last call
\* before the load was logout the service is logged out afterwards.
C29_AuthSurvivesPageLoad ==
  [][lastRun'.handler = "page load" =>
       /\ lastRun.handler \in {"login", "switchAccount"} /\ isLoggedIn(auth) =>
            isLoggedIn(auth') /\ auth'.currentUser.id = PersistedUser(auth).id
       /\ lastRun.handler = "logout" => ~isLoggedIn(auth')]_vars

\* C29, the login half alone: the account logged in before the load is the
\* account logged in after it.
C29_LoginSurvivesPageLoad ==
  [][(lastRun'.handler = "page load" /\ isLoggedIn(auth)) =>
       isLoggedIn(auth') /\ auth'.currentUser.id = auth.currentUser.id]_vars

\* C29, the logout half alone: a page loaded after logout is logged out.
C29_LogoutSurvivesPageLoad ==
  [][(lastRun'.handler = "page load" /\ lastRun.handler = "logout") => ~isLoggedIn(auth')]_vars

\* what the code does instead: every page load ends logged in as the first
\* account, with the profile the constructor lists for it.
C29_PageLoadLogsInFirstAccount ==
  [][lastRun'.handler = "page load" =>
       /\ isLoggedIn(auth')
       /\ auth'.currentUser = SeedUsers[1]
       /\ auth'.availableUsers = SeedUsers]_vars

====
